---- MODULE Spec2Model ----
(***************************************************************************)
(* Node-graph workflows of the research_assistant repository.              *)
(*                                                                         *)
(* One behaviour of this module is one run of one graph: the Hello graph   *)
(* (hello_world/core), the Gemini chat graph (research_agent/core/gemini)  *)
(* or the document-ingestion graph (research_agent/core/document).  Init   *)
(* draws the caller's inputs (initial state, dependencies, start node);    *)
(* every action is one engine iteration: the instrumentation wrapper, the  *)
(* node body it wraps and the engine's handling of what the step returned. *)
(*                                                                         *)
(* Conventions                                                             *)
(*  - an Optional value is a sequence of length <= 1: None is << >> and    *)
(*    Some(v) is << v >>;                                                  *)
(*  - a history entry f"{node}: {text}" is the record [node, text];        *)
(*  - a path is the record [dir, stem, ext]; the file system is the fixed  *)
(*    function FileContent;                                                *)
(*  - a measured duration is drawn from Durations.                         *)
(***************************************************************************)
EXTENDS Integers, Sequences, FiniteSets, TLC

VARIABLES
    graph,      \* which graph the caller runs: "hello", "gemini" or "doc"
    state,      \* the state object handed to graph.run (mutated in place)
    state0,     \* the caller's copy of the initial field values
    deps,       \* the dependency container handed to graph.run
    start,      \* the start node handed to graph.run
    current,    \* the node the engine executes next
    pc,         \* "running", "done" (End returned) or "failed" (step raised)
    trace,      \* the engine's run history: one entry per step, then "End"
    output,     \* Optional payload of the End marker
    err,        \* Optional exception that left graph.run
    calls,      \* calls received by the collaborators, in order
    measured    \* durations measured inside node bodies, in order

vars == <<graph, state, state0, deps, start, current, pc, trace, output, err, calls, measured>>

(***************************************************************************)
(* Bounds                                                                  *)
(***************************************************************************)
MaxBatch == 3
MaxDuration == 2

Durations == 1..MaxDuration

(***************************************************************************)
(* Optional values                                                         *)
(***************************************************************************)
None == << >>
Some(v) == << v >>
IsNone(o) == o = << >>
Get(o) == o[1]

(***************************************************************************)
(* Exceptions and step results                                             *)
(***************************************************************************)
Exc(type, msg) == [type |-> type, msg |-> msg]

NodeError(msg) == Exc("NodeError", msg)

Continue(node) == [kind |-> "node", next |-> node]
\* a terminal marker that drops what it was given
End_Empty(payload) == [kind |-> "end", payload |-> ""]

End(payload) == [kind |-> "end", payload |-> payload]
ReturnsNone == [kind |-> "none"]
Raises(e) == [kind |-> "raise", exc |-> e]

HistoryEntry(node, text) == [node |-> node, text |-> text]

(***************************************************************************)
(* Text-generation collaborators of the Hello graph                        *)
(***************************************************************************)
HelloPrompt == "Generate a greeting word like 'Hello'"
WorldPrompt == "Generate a noun like 'World'"

\* "hello" in prompt.lower() / "world" in prompt.lower(), on the prompts used
MentionsHello(prompt) == prompt = HelloPrompt
MentionsWorld(prompt) == prompt = WorldPrompt

MockLLMClient_generate_text(prompt) ==
    "This is a mock response from an LLM. In a real implementation, this would be generated text."

TestLLMClient_generate_text(prompt) ==
    IF MentionsHello(prompt) THEN "Test Hello"
    ELSE IF MentionsWorld(prompt) THEN "Test World"
    ELSE "Test Response"

LegacyMockLLMClient_generate_text(prompt) ==
    IF MentionsHello(prompt) THEN "Hello"
    ELSE IF MentionsWorld(prompt) THEN "World"
    ELSE "I'm a mock LLM client!"

\* prefix handed to HelloWorldDependencies and on to CustomLLMClient
Prefixes == {None, Some("Demo:")}

\* CustomLLMClient(prefix=prefix): self.prefix = prefix or ""
CustomLLMClient(prefix) ==
    IF IsNone(prefix) \/ Get(prefix) = "" THEN "CustomLLMClient"
    ELSE "CustomLLMClient(" \o Get(prefix) \o ")"

CustomLLMClient_generate_text(prefix) ==
    IF IsNone(prefix) \/ Get(prefix) = ""
    THEN "This is a custom response from an LLM with a prefix."
    ELSE Get(prefix) \o " " \o "This is a custom response from an LLM with a prefix."

\* prompt[:30], on the prompts used
First30(prompt) ==
    IF prompt = HelloPrompt THEN "Generate a greeting word like " ELSE prompt

\* MockGeminiLLMClient.generate_text: no prompt used holds a key of responses
MockGeminiLLMClient_generate_text(prompt) ==
    "This is a mock response to your question about '" \o First30(prompt)
    \o "...'. In a production environment, this would be generated by the actual "
    \o "Gemini model through Vertex AI."

\* GeminiLLMClient.generate_text with a reachable model: the text of the agent
GeminiLLMClient_generate_text(prompt) == "Answer to: " \o prompt

\* the clients a caller hands over explicitly
LLMClients == {"MockLLMClient", "TestLLMClient", "LegacyMockLLMClient", "RaisingLLMClient"}

\* await ctx.deps.llm_client.generate_text(prompt): a returned text or an exception
generate_text(client, prompt) ==
    CASE client = "MockLLMClient" -> [ok |-> TRUE, text |-> MockLLMClient_generate_text(prompt)]
      [] client = "TestLLMClient" -> [ok |-> TRUE, text |-> TestLLMClient_generate_text(prompt)]
      [] client = "LegacyMockLLMClient" -> [ok |-> TRUE, text |-> LegacyMockLLMClient_generate_text(prompt)]
      [] client \in {CustomLLMClient(p) : p \in Prefixes} ->
             [ok |-> TRUE,
              text |-> CustomLLMClient_generate_text(
                           CHOOSE p \in Prefixes : client = CustomLLMClient(p))]
      [] client = "MockGeminiLLMClient" ->
             [ok |-> TRUE, text |-> MockGeminiLLMClient_generate_text(prompt)]
      [] client = "GeminiLLMClient" ->
             [ok |-> TRUE, text |-> GeminiLLMClient_generate_text(prompt)]
      [] OTHER -> [ok |-> FALSE, exc |-> Exc("RuntimeError", "LLM unavailable")]

\* a container that always creates its own client
HelloWorldDependencies_post_init_OwnClient(use_custom_llm, use_gemini, use_mock_gemini, prefix, llm_client) ==
    [llm_client |->
        IF use_gemini
        THEN (IF use_mock_gemini THEN "MockGeminiLLMClient" ELSE "GeminiLLMClient")
        ELSE IF use_custom_llm THEN CustomLLMClient(prefix)
        ELSE "MockLLMClient"]

\* HelloWorldDependencies.__post_init__: the client the container holds once
\* it is constructed
HelloWorldDependencies_post_init(use_custom_llm, use_gemini, use_mock_gemini, prefix, llm_client) ==
    [llm_client |->
        IF ~IsNone(llm_client) THEN Get(llm_client)
        ELSE IF use_gemini
             THEN (IF use_mock_gemini THEN "MockGeminiLLMClient" ELSE "GeminiLLMClient")
        ELSE IF use_custom_llm THEN CustomLLMClient(prefix)
        ELSE "MockLLMClient"]

\* HelloWorldDependencies(llm_client=llm_client): every flag at its default
HelloWorldDependencies(llm_client) ==
    HelloWorldDependencies_post_init(FALSE, FALSE, FALSE, None, llm_client)

(***************************************************************************)
(* State of the Hello graph                                                *)
(***************************************************************************)
HelloTexts == {"", "Custom Hello", "Pre Hello"}
WorldTexts == {"", "Pre World"}
CombinedTexts == {"", "Pre Hello Pre World!", "Stale text"}

MyState(hello, world, combined) ==
    [hello_text |-> hello, world_text |-> world, combined_text |-> combined,
     hello_generation_time |-> 0, world_generation_time |-> 0,
     combine_generation_time |-> 0, total_time |-> 0,
     node_execution_history |-> << >>]

(***************************************************************************)
(* The engine: what graph.run does with the result of one step             *)
(***************************************************************************)
\* What the runner function lets out when graph.run raised exc:
\* run_graph re-raises, the document runners wrap it in a GraphError,
\* run_gemini_agent_graph catches only GraphError (a NodeError passes through).
RaisedToCaller(exc) ==
    IF graph = "doc" /\ start = "FileTypeRouterNode"
    THEN [type |-> "GraphError",
          msg |-> "Document ingestion with Docling failed: " \o exc.msg]
    ELSE IF graph = "doc" /\ start = "ChromaDBIngestionNode"
    THEN [type |-> "GraphError", msg |-> "Document ingestion failed: " \o exc.msg]
    ELSE exc

\* what graph.run raises when a step hands it neither a node nor an End
InvalidNodeReturn ==
    Exc("GraphRuntimeError",
        "Invalid node return type: NoneType. Expected BaseNode or End.")

\* an engine whose run history has no entry for the terminal marker
Engine_NoEndEntry(node, st, res) ==
    /\ state' = st
    /\ CASE res.kind = "raise" ->
              /\ pc' = "failed"
              /\ err' = Some(RaisedToCaller(res.exc))
              /\ UNCHANGED <<current, trace, output>>
         [] res.kind = "end" ->
              /\ pc' = "done"
              /\ output' = Some(res.payload)
              /\ trace' = Append(trace, node)
              /\ current' = "End"
              /\ UNCHANGED err
         [] res.kind = "none" ->
              /\ pc' = "failed"
              /\ err' = Some(RaisedToCaller(InvalidNodeReturn))
              /\ UNCHANGED <<current, trace, output>>
         [] OTHER ->
              /\ current' = res.next
              /\ trace' = Append(trace, node)
              /\ UNCHANGED <<pc, output, err>>

Engine(node, st, res) ==
    /\ state' = st
    /\ CASE res.kind = "raise" ->
              /\ pc' = "failed"
              /\ err' = Some(RaisedToCaller(res.exc))
              /\ UNCHANGED <<current, trace, output>>
         [] res.kind = "end" ->
              /\ pc' = "done"
              /\ output' = Some(res.payload)
              /\ trace' = trace \o <<node, "End">>
              /\ current' = "End"
              /\ UNCHANGED err
         [] res.kind = "none" ->
              /\ pc' = "failed"
              /\ err' = Some(RaisedToCaller(InvalidNodeReturn))
              /\ UNCHANGED <<current, trace, output>>
         [] OTHER ->
              /\ current' = res.next
              /\ trace' = Append(trace, node)
              /\ UNCHANGED <<pc, output, err>>

(***************************************************************************)
(* Instrumentation wrapper of hello_world/core/nodes.py                    *)
(***************************************************************************)
\* a wrapper that answers an exception by running the same node again
HelloWrapper_Retries(node, res) ==
    CASE res.kind = "none" ->
              Raises(NodeError("Node " \o node \o " returned None instead of a valid node"))
      [] res.kind = "raise" -> Continue(node)
      [] OTHER -> res

HelloWrapper(node, res) ==
    CASE res.kind = "none" ->
              Raises(NodeError("Node " \o node \o " returned None instead of a valid node"))
      [] res.kind = "raise" /\ res.exc.type # "NodeError" ->
              Raises([type |-> "NodeError",
                      msg |-> "Node execution failed: " \o res.exc.msg,
                      cause |-> res.exc])
      [] OTHER -> res

(***************************************************************************)
(* Nodes of the Hello graph                                                *)
(***************************************************************************)
\* "if not ctx.state.hello_text" / "if not ctx.state.world_text"
NeedsGeneration(text) == text = ""

\* f"{hello_text} {world_text}!"
CombineText(hello, world) == hello \o " " \o world \o "!"

\* a CombineNode that respects a pre-set combined_text
CombinedText_KeepPreset(found, hello, world) ==
    IF found # "" THEN found ELSE CombineText(hello, world)

\* the combined_text CombineNode leaves, given the one it found
CombinedText(found, hello, world) == CombineText(hello, world)

HelloNode ==
    /\ graph = "hello" /\ pc = "running" /\ current = "HelloNode"
    /\ \E t \in Durations :
         LET gen == generate_text(deps.llm_client, HelloPrompt) IN
         IF NeedsGeneration(state.hello_text) /\ ~gen.ok
         THEN /\ Engine("HelloNode", state, HelloWrapper("HelloNode", Raises(gen.exc)))
              /\ calls' = Append(calls, HelloPrompt)
              /\ UNCHANGED measured
         ELSE LET text == IF NeedsGeneration(state.hello_text) THEN gen.text
                          ELSE state.hello_text
                  st == [state EXCEPT
                           !.hello_text = text,
                           !.hello_generation_time = t,
                           !.node_execution_history =
                               Append(@, HistoryEntry("HelloNode", "Generated '" \o text \o "'"))]
              IN /\ Engine("HelloNode", st, HelloWrapper("HelloNode", Continue("WorldNode")))
                 /\ calls' = IF NeedsGeneration(state.hello_text) THEN Append(calls, HelloPrompt) ELSE calls
                 /\ measured' = Append(measured, [node |-> "HelloNode", value |-> t])
    /\ UNCHANGED <<graph, state0, deps, start>>

WorldNode ==
    /\ graph = "hello" /\ pc = "running" /\ current = "WorldNode"
    /\ \E t \in Durations :
         LET gen == generate_text(deps.llm_client, WorldPrompt) IN
         IF NeedsGeneration(state.world_text) /\ ~gen.ok
         THEN /\ Engine("WorldNode", state, HelloWrapper("WorldNode", Raises(gen.exc)))
              /\ calls' = Append(calls, WorldPrompt)
              /\ UNCHANGED measured
         ELSE LET text == IF NeedsGeneration(state.world_text) THEN gen.text
                          ELSE state.world_text
                  st == [state EXCEPT
                           !.world_text = text,
                           !.world_generation_time = t,
                           !.node_execution_history =
                               Append(@, HistoryEntry("WorldNode", "Generated '" \o text \o "'"))]
              IN /\ Engine("WorldNode", st, HelloWrapper("WorldNode", Continue("CombineNode")))
                 /\ calls' = IF NeedsGeneration(state.world_text) THEN Append(calls, WorldPrompt) ELSE calls
                 /\ measured' = Append(measured, [node |-> "WorldNode", value |-> t])
    /\ UNCHANGED <<graph, state0, deps, start>>

CombineNode ==
    /\ graph = "hello" /\ pc = "running" /\ current = "CombineNode"
    /\ \E t \in Durations :
         LET text == CombinedText(state.combined_text, state.hello_text, state.world_text)
             st == [state EXCEPT
                      !.combined_text = text,
                      !.combine_generation_time = t,
                      !.node_execution_history =
                          Append(@, HistoryEntry("CombineNode", "Combined '" \o text \o "'"))]
         IN /\ Engine("CombineNode", st, HelloWrapper("CombineNode", Continue("PrintNode")))
            /\ measured' = Append(measured, [node |-> "CombineNode", value |-> t])
    /\ UNCHANGED <<graph, state0, deps, start, calls>>

PrintNode ==
    /\ graph = "hello" /\ pc = "running" /\ current = "PrintNode"
    /\ \E t \in Durations :
         LET st == [state EXCEPT
                      !.total_time = t + state.hello_generation_time
                                       + state.world_generation_time
                                       + state.combine_generation_time,
                      !.node_execution_history =
                          Append(@, HistoryEntry("PrintNode",
                                                 "Final output '" \o state.combined_text \o "'"))]
         IN /\ Engine("PrintNode", st, HelloWrapper("PrintNode", End(st.combined_text)))
            /\ measured' = Append(measured, [node |-> "PrintNode", value |-> t])
    /\ UNCHANGED <<graph, state0, deps, start, calls>>

(***************************************************************************)
(* Instrumentation wrapper of research_agent/core/gemini/nodes.py, shared  *)
(* by the Gemini chat node and the three document-ingestion nodes.         *)
(* res is what the node body returned or raised, st the state it left,     *)
(* t the wrapper's execution_time, summary the node's                      *)
(* f"{_log_prefix}: {_get_output_text(ctx)}".                              *)
(***************************************************************************)
\* isinstance(result, End), for the wrapped function named "run"
IsEndObject(res) == res.kind = "end"

AppendHistory(st, entry) ==
    [st EXCEPT !.node_execution_history = Append(@, entry)]

measure_execution_time(node, st, res, t, summary) ==
    LET raised ==
            IF res.kind = "raise" THEN Some(res.exc)
            ELSE IF ~IsEndObject(res)
                 THEN Some(NodeError("Node " \o node \o " did not return an End object"))
                 ELSE None
    IN IF ~IsNone(raised)
       THEN [st |-> AppendHistory(st, HistoryEntry(node, "Error - " \o Get(raised).msg)),
             res |-> Raises(Get(raised))]
       ELSE [st |-> AppendHistory(st, HistoryEntry(node,
                        summary \o " (took " \o ToString(t) \o "s)")),
             res |-> res]

(***************************************************************************)
(* Gemini chat graph                                                       *)
(***************************************************************************)
UserPrompts == {"", "What is AI?"}
GeminiClients == {"GeminiLLMClient", "GeminiLLMClientAgentDown", "AsyncMock", "RaisingLLMClient"}

\* generate_text of the clients a Gemini run can hold
gemini_generate_text(client, prompt) ==
    CASE client = "GeminiLLMClient" -> [ok |-> TRUE, text |-> "Answer to: " \o prompt]
      [] client = "GeminiLLMClientAgentDown" ->
             [ok |-> TRUE, text |-> "Error generating response: " \o "agent down"]
      [] client = "AsyncMock" -> [ok |-> TRUE, text |-> "This is a test response from the mock."]
      [] OTHER -> [ok |-> FALSE, exc |-> Exc("RuntimeError", "LLM unavailable")]

\* GeminiDependencies.__post_init__: an omitted client becomes GeminiLLMClient
GeminiDependencies(llm_client) ==
    [llm_client |-> IF IsNone(llm_client) THEN "GeminiLLMClient" ELSE Get(llm_client)]

GeminiState(user_prompt) ==
    [user_prompt |-> user_prompt, ai_response |-> "", ai_generation_time |-> 0,
     total_time |-> 0, node_execution_history |-> << >>]

NoPromptMessage == "No prompt provided. Please enter a question or prompt."

\* a node that asks the client whatever the prompt is
GeminiAgentNode_CallsAlways ==
    /\ graph = "gemini" /\ pc = "running" /\ current = "GeminiAgentNode"
    /\ \E tb \in Durations : \E tw \in tb..MaxDuration :
         LET gen == gemini_generate_text(deps.llm_client, state.user_prompt) IN
         IF ~gen.ok
         THEN LET w == measure_execution_time("GeminiAgentNode", state, Raises(gen.exc), tw, "")
              IN /\ Engine("GeminiAgentNode", w.st, w.res)
                 /\ calls' = Append(calls, state.user_prompt)
                 /\ UNCHANGED measured
         ELSE LET st == [state EXCEPT !.ai_response = gen.text,
                                      !.ai_generation_time = tb,
                                      !.total_time = tb]
                  w == measure_execution_time("GeminiAgentNode", st, End(gen.text), tw,
                                              "AI Response: " \o st.ai_response)
              IN /\ Engine("GeminiAgentNode", w.st, w.res)
                 /\ calls' = Append(calls, state.user_prompt)
                 /\ measured' = Append(measured, [node |-> "GeminiAgentNode", value |-> tb])
    /\ UNCHANGED <<graph, state0, deps, start>>

GeminiAgentNode ==
    /\ graph = "gemini" /\ pc = "running" /\ current = "GeminiAgentNode"
    /\ \E tb \in Durations : \E tw \in tb..MaxDuration :
         LET gen == gemini_generate_text(deps.llm_client, state.user_prompt) IN
         IF state.user_prompt # "" /\ ~gen.ok
         THEN LET w == measure_execution_time("GeminiAgentNode", state, Raises(gen.exc), tw, "")
              IN /\ Engine("GeminiAgentNode", w.st, w.res)
                 /\ calls' = Append(calls, state.user_prompt)
                 /\ UNCHANGED measured
         ELSE LET text == IF state.user_prompt # "" THEN gen.text ELSE NoPromptMessage
                  st == [state EXCEPT !.ai_response = text,
                                      !.ai_generation_time = tb,
                                      !.total_time = tb]
                  w == measure_execution_time("GeminiAgentNode", st, End(text), tw,
                                              "AI Response: " \o st.ai_response)
              IN /\ Engine("GeminiAgentNode", w.st, w.res)
                 /\ calls' = IF state.user_prompt # "" THEN Append(calls, state.user_prompt)
                             ELSE calls
                 /\ measured' = Append(measured, [node |-> "GeminiAgentNode", value |-> tb])
    /\ UNCHANGED <<graph, state0, deps, start>>

InitGemini ==
    /\ graph = "gemini"
    /\ \E p \in UserPrompts : state = GeminiState(p)
    /\ \E client \in {None} \cup {Some(k) : k \in GeminiClients} :
         deps = GeminiDependencies(client)
    /\ start = "GeminiAgentNode"

(***************************************************************************)
(* Document-ingestion graph: files and the file system                     *)
(***************************************************************************)
Path(dir, stem, ext) == [dir |-> dir, stem |-> stem, ext |-> ext]

a_pdf == Path("", "a", "pdf")
b_txt == Path("", "b", "txt")
c_exe == Path("", "c", "exe")
only_txt == Path("", "only", "txt")
sub_b_txt == Path("sub", "b", "txt")
notes_log == Path("", "notes", "log")
blob_dat == Path("", "blob", "dat")
gone_txt == Path("", "gone", "txt")
sub_a_PDF == Path("sub", "a", "PDF")

Files == {a_pdf, b_txt, c_exe, only_txt, sub_b_txt, notes_log, blob_dat, gone_txt, sub_a_PDF}

\* What opening and reading the file does:
\*   "text"    decodes as UTF-8, no NUL in the first kilobyte
\*   "nul"     decodes as UTF-8, a NUL byte in the first kilobyte
\*   "invalid" not UTF-8 (UnicodeDecodeError on read)
\*   "missing" open raises FileNotFoundError
\*   "corrupt" exists, but the Docling converter raises on it
FileContent(p) ==
    CASE p = blob_dat -> "nul"
      [] p = gone_txt -> "missing"
      [] p = sub_a_PDF -> "corrupt"
      [] p = c_exe -> "invalid"
      [] OTHER -> "text"

\* f.read() of a readable file
ReadText(p) == "text of " \o p.dir \o "/" \o p.stem \o "." \o p.ext

\* str.lower() on the extensions in Files
Lower(ext) == IF ext = "PDF" THEN "pdf" ELSE ext

\* os.path.splitext(file_path)[1].lower()
FileExtension(p) == "." \o Lower(p.ext)

DOCLING_SUPPORTED_EXTENSIONS ==
    {".pdf", ".docx", ".pptx", ".html", ".htm", ".png", ".jpg", ".jpeg",
     ".xlsx", ".csv", ".md", ".xml", ".json"}
TEXT_FILE_EXTENSIONS == {".txt"}
SKIP_EXTENSIONS == {".exe", ".dll", ".zip", ".rar", ".7z", ".tar", ".gz", ".bin"}

(***************************************************************************)
(* DocumentState                                                           *)
(***************************************************************************)
DocumentState(file_paths, documents, document_ids, metadata) ==
    [file_paths |-> file_paths,
     documents |-> documents,
     document_ids |-> document_ids,
     metadata |-> metadata,
     chroma_collection_name |-> "default_collection",
     embedding_results |-> None,
     ingestion_results |-> None,
     node_execution_history |-> << >>,
     total_time |-> 0]

\* an Optional list read as a list: [] when None
ListOf(o) == IF IsNone(o) THEN << >> ELSE Get(o)

\* Python truthiness of an Optional list: neither None nor empty
Truthy(o) == ~IsNone(o) /\ Len(Get(o)) > 0

(***************************************************************************)
(* FileTypeRouterNode.run: the loop over ctx.state.file_paths              *)
(***************************************************************************)
\* an identifier built from the file name alone
RouterDocId_NoIndex(p, n) == "doc_" \o p.stem

\* f"doc_{Path(file_path).stem}_{len(ctx.state.document_ids)}"
RouterDocId(p, n) == "doc_" \o p.stem \o "_" \o ToString(n)

\* a direct read that numbers the identifier by len(ctx.state.documents)
AppendDirect_IndexByDocuments(st, p, meta) ==
    [st EXCEPT !.documents = Append(@, ReadText(p)),
               !.metadata = Some(Append(ListOf(@), meta)),
               !.document_ids = Some(Append(ListOf(@), RouterDocId(p, Len(st.documents))))]

\* a direct read that forgets the metadata entry
AppendDirect_NoMetadata(st, p, meta) ==
    [st EXCEPT !.documents = Append(@, ReadText(p)),
               !.document_ids = Some(Append(ListOf(@), RouterDocId(p, Len(ListOf(@)))))]

\* the three appends of a direct read (lines 382-400 and 428-447)
AppendDirect(st, p, meta) ==
    [st EXCEPT !.documents = Append(@, ReadText(p)),
               !.metadata = Some(Append(ListOf(@), meta)),
               !.document_ids = Some(Append(ListOf(@), RouterDocId(p, Len(ListOf(@)))))]

TextMetadata(p) ==
    [source |-> p, document_type |-> "text", processed_with |-> "direct"]

UnknownMetadata(p) ==
    [source |-> p, document_type |-> "unknown", processed_with |-> "direct",
     note |-> "Unsupported file type processed as text"]

\* is_binary of lines 410-418; only called for a file that can be opened
IsBinary(p) == FileContent(p) \in {"nul", "invalid"}

\* acc = [st, docling_files, text_files, unsupported_files, skipped_files]
RouteFile(acc, p) ==
    LET ext == FileExtension(p) IN
    IF ext \in SKIP_EXTENSIONS
    THEN [acc EXCEPT !.skipped_files = Append(@, p)]
    ELSE IF ext \in DOCLING_SUPPORTED_EXTENSIONS
    THEN [acc EXCEPT !.docling_files = Append(@, p)]
    ELSE IF ext \in TEXT_FILE_EXTENSIONS
    THEN IF FileContent(p) \in {"missing", "invalid"}
         THEN [acc EXCEPT !.text_files = Append(@, p)]
         ELSE [acc EXCEPT !.text_files = Append(@, p),
                          !.st = AppendDirect(@, p, TextMetadata(p))]
    ELSE IF FileContent(p) = "missing" \/ IsBinary(p)
         THEN [acc EXCEPT !.unsupported_files = Append(@, p)]
         ELSE [acc EXCEPT !.unsupported_files = Append(@, p),
                          !.st = AppendDirect(@, p, UnknownMetadata(p))]

RECURSIVE RouteFiles(_, _)
RouteFiles(acc, paths) ==
    IF paths = << >> THEN acc
    ELSE RouteFiles(RouteFile(acc, Head(paths)), Tail(paths))

RouterSummary(acc, t) ==
    "Routed " \o ToString(Len(acc.docling_files)) \o " files to Docling, "
      \o ToString(Len(acc.text_files)) \o " text files direct to Chroma, "
      \o "attempted " \o ToString(Len(acc.unsupported_files)) \o " unsupported files, skipped "
      \o ToString(Len(acc.skipped_files)) \o " files (took " \o ToString(t) \o "s)"

\* The body of FileTypeRouterNode.run: the state it leaves and what it returns
FileTypeRouterBody(st, t) ==
    IF st.file_paths = << >>
    THEN [st |-> st, res |-> Continue("ChromaDBIngestionNode"), acc |-> None]
    ELSE LET acc == RouteFiles([st |-> st, docling_files |-> << >>, text_files |-> << >>,
                                unsupported_files |-> << >>, skipped_files |-> << >>],
                               st.file_paths)
             st2 == AppendHistory([acc.st EXCEPT !.file_paths = acc.docling_files],
                                  HistoryEntry("FileTypeRouterNode", RouterSummary(acc, t)))
         IN [st |-> st2,
             res |-> IF acc.docling_files # << >>
                     THEN Continue("DoclingProcessorNode")
                     ELSE Continue("ChromaDBIngestionNode"),
             acc |-> Some(acc)]

FileTypeRouterNode ==
    /\ graph = "doc" /\ pc = "running" /\ current = "FileTypeRouterNode"
    /\ \E tb \in Durations : \E tw \in tb..MaxDuration :
         LET body == FileTypeRouterBody(state, tb)
             w == measure_execution_time("FileTypeRouterNode", body.st, body.res, tw,
                      "File Type Router: " \o
                        (IF body.st.file_paths # << >>
                         THEN "Routed " \o ToString(Len(body.st.file_paths))
                                \o " files based on their types"
                         ELSE "No files to route"))
         IN /\ Engine("FileTypeRouterNode", w.st, w.res)
            /\ measured' = IF IsNone(body.acc) THEN measured
                           ELSE Append(measured, [node |-> "FileTypeRouterNode", value |-> tb])
    /\ UNCHANGED <<graph, state0, deps, start, calls>>

(***************************************************************************)
(* DoclingProcessorNode.run                                                *)
(***************************************************************************)
DoclingProcessors == {"available", "unavailable", "missing_attribute"}

\* processor.process_file(file_path) raises for a missing or unconvertible file
ProcessFileRaises(p) == FileContent(p) \in {"missing", "corrupt"}

\* docling_document.export_to_text()
ExportToText(p) == "docling text of " \o p.dir \o "/" \o p.stem \o "." \o p.ext

\* dict.update: the keys of old override those of new
DictUpdate(new, old) ==
    [k \in (DOMAIN new) \cup (DOMAIN old) |-> IF k \in DOMAIN old THEN old[k] ELSE new[k]]

\* f"doc_{Path(file_path).stem}_{i}"
DoclingDocId(p, i) == "doc_" \o p.stem \o "_" \o ToString(i)

\* metadata of lines 101-153 for the file at 0-based position i
DoclingMetadata(st, p, i) ==
    LET fresh == [source |-> p, document_type |-> "unknown", processed_with |-> "docling"]
    IN IF Truthy(st.metadata) /\ i < Len(Get(st.metadata))
       THEN DictUpdate(fresh, Get(st.metadata)[i + 1])
       ELSE fresh

\* doc_id of lines 155-160 for the file at 0-based position i
DoclingId(st, p, i) ==
    IF Truthy(st.document_ids) /\ i < Len(Get(st.document_ids))
    THEN Get(st.document_ids)[i + 1]
    ELSE DoclingDocId(p, i)

\* acc = [documents, metadata, ids]; i is the 0-based position of Head(paths)
RECURSIVE ProcessFiles(_, _, _, _)
ProcessFiles(st, acc, paths, i) ==
    IF paths = << >> THEN acc
    ELSE LET p == Head(paths)
             acc2 == IF ProcessFileRaises(p) THEN acc
                     ELSE [documents |-> Append(acc.documents, ExportToText(p)),
                           metadata |-> Append(acc.metadata, DoclingMetadata(st, p, i)),
                           ids |-> Append(acc.ids, DoclingId(st, p, i))]
         IN ProcessFiles(st, acc2, Tail(paths), i + 1)

DoclingFailureMessage ==
    "Error during Docling document processing: " \o "no attribute 'docling_processor'"

\* lines 188-207: the handler of an exception outside the per-file loop
DoclingFallback(st) ==
    LET n == Len(st.file_paths)
        logged == AppendHistory(st, HistoryEntry("DoclingProcessorNode",
                                                 "Error - " \o DoclingFailureMessage))
    IN IF st.documents # << >> THEN logged
       ELSE [logged EXCEPT
               !.documents = [i \in 1..n |-> "Failed to process document " \o ToString(i - 1)],
               !.metadata = IF Truthy(st.metadata) THEN st.metadata
                            ELSE Some([i \in 1..n |-> << >>]),
               !.document_ids = IF Truthy(st.document_ids) THEN st.document_ids
                                ELSE Some([i \in 1..n |-> "doc_" \o ToString(i - 1)])]

\* The body of DoclingProcessorNode.run
DoclingProcessorBody(st, processor, t) ==
    IF st.file_paths = << >> THEN st
    ELSE IF processor = "missing_attribute" THEN DoclingFallback(st)
    ELSE IF processor = "unavailable" THEN st
    ELSE LET acc == ProcessFiles(st, [documents |-> << >>, metadata |-> << >>, ids |-> << >>],
                                 st.file_paths, 0)
         IN AppendHistory([st EXCEPT !.documents = acc.documents,
                                     !.metadata = Some(acc.metadata),
                                     !.document_ids = Some(acc.ids)],
                          HistoryEntry("DoclingProcessorNode",
                              "Processed " \o ToString(Len(acc.documents))
                                \o " documents (took " \o ToString(t) \o "s)"))

DoclingProcessorNode ==
    /\ graph = "doc" /\ pc = "running" /\ current = "DoclingProcessorNode"
    /\ \E tb \in Durations : \E tw \in tb..MaxDuration :
         LET st == DoclingProcessorBody(state, deps.docling_processor, tb)
             w == measure_execution_time("DoclingProcessorNode", st,
                      Continue("ChromaDBIngestionNode"), tw,
                      "Docling Processing: " \o
                        (IF st.file_paths # << >>
                         THEN "Processed " \o ToString(Len(st.file_paths))
                                \o " documents with Docling"
                         ELSE "No documents processed with Docling"))
         IN /\ Engine("DoclingProcessorNode", w.st, w.res)
            /\ measured' = IF state.file_paths # << >> /\ deps.docling_processor = "available"
                           THEN Append(measured, [node |-> "DoclingProcessorNode", value |-> tb])
                           ELSE measured
    /\ UNCHANGED <<graph, state0, deps, start, calls>>

(***************************************************************************)
(* ChromaDBIngestionNode.run and the store collaborator                    *)
(***************************************************************************)
ChromaClients == {"DefaultChromaDBClient", "DefaultChromaDBClientStoreDown", "RaisingChromaClient"}

\* ChromaDBDependencies.__post_init__: an omitted client becomes
\* DefaultChromaDBClient(persist_directory)
ChromaDBDependencies(chroma_client) ==
    [chroma_client |-> IF IsNone(chroma_client) THEN "DefaultChromaDBClient"
                       ELSE Get(chroma_client)]

HasDuplicates(ids) == \E i, j \in 1..Len(ids) : i # j /\ ids[i] = ids[j]

\* DefaultChromaDBClient.add_documents: always returns a dictionary
DefaultAddDocuments(storeDown, collection, documents, document_ids, metadata) ==
    LET n == Len(documents)
        ids == IF IsNone(document_ids) THEN [i \in 1..n |-> "uuid-" \o ToString(i)]
               ELSE Get(document_ids)
        metas == IF IsNone(metadata) THEN [i \in 1..n |-> [source |-> "unknown"]]
                 ELSE Get(metadata)
        prefix == "Error adding documents to collection '" \o collection \o "': "
    IN IF storeDown
       THEN [error |-> prefix \o "store unavailable"]
       ELSE IF Len(ids) # n \/ Len(metas) # n
       THEN [error |-> "Mismatch in lengths: documents=" \o ToString(n)
                         \o ", ids=" \o ToString(Len(ids))
                         \o ", metadata=" \o ToString(Len(metas))]
       ELSE IF HasDuplicates(ids)
       THEN [error |-> prefix \o "duplicate ids"]
       ELSE [success |-> TRUE, count |-> n, collection |-> collection, ids |-> ids]

\* ctx.deps.chroma_client.add_documents(...): a returned dictionary or an exception
add_documents(client, collection, documents, document_ids, metadata) ==
    CASE client = "DefaultChromaDBClient" ->
             [ok |-> TRUE,
              result |-> DefaultAddDocuments(FALSE, collection, documents, document_ids, metadata)]
      [] client = "DefaultChromaDBClientStoreDown" ->
             [ok |-> TRUE,
              result |-> DefaultAddDocuments(TRUE, collection, documents, document_ids, metadata)]
      [] OTHER -> [ok |-> FALSE, exc |-> Exc("RuntimeError", "store connection refused")]

IngestionSummary(st) ==
    "Ingested " \o ToString(Len(st.documents)) \o " documents into " \o st.chroma_collection_name

\* total_time written by the success path (line 279)
IngestionTotalTime(ingestion_time, execution_time) == ingestion_time

\* the node's own history entries on the success path (lines 271-276)
IngestionBodyHistory(st) == <<HistoryEntry("ChromaDBIngestionNode", IngestionSummary(st))>>

\* a node without the handler of lines 287-292
ChromaDBIngestionNode_Escapes ==
    /\ graph = "doc" /\ pc = "running" /\ current = "ChromaDBIngestionNode"
    /\ \E tb \in Durations : \E tw \in tb..MaxDuration :
         LET call == [op |-> "add_documents",
                      collection_name |-> state.chroma_collection_name,
                      documents |-> state.documents,
                      document_ids |-> state.document_ids,
                      metadata |-> state.metadata]
             r == add_documents(deps.chroma_client, state.chroma_collection_name,
                                state.documents, state.document_ids, state.metadata)
             result == IF state.documents = << >>
                       THEN [error |-> "No documents provided for ingestion"]
                       ELSE IF ~r.ok
                       THEN [error |-> "Error during document ingestion: " \o r.exc.msg]
                       ELSE r.result
             succeeded == state.documents # << >> /\ r.ok
             st == IF succeeded
                   THEN [state EXCEPT
                           !.ingestion_results = Some(result),
                           !.node_execution_history = @ \o IngestionBodyHistory(state),
                           !.total_time = IngestionTotalTime(tb, tw)]
                   ELSE [state EXCEPT !.ingestion_results = Some(result)]
             w == measure_execution_time("ChromaDBIngestionNode", st,
                      IF state.documents # << >> /\ ~r.ok THEN Raises(r.exc) ELSE End(result), tw,
                      "Document Ingestion: " \o IngestionSummary(st))
         IN /\ Engine("ChromaDBIngestionNode", w.st, w.res)
            /\ calls' = IF state.documents # << >> THEN Append(calls, call) ELSE calls
            /\ measured' = IF succeeded
                           THEN Append(measured, [node |-> "ChromaDBIngestionNode", value |-> tb])
                           ELSE measured
    /\ UNCHANGED <<graph, state0, deps, start>>

ChromaDBIngestionNode ==
    /\ graph = "doc" /\ pc = "running" /\ current = "ChromaDBIngestionNode"
    /\ \E tb \in Durations : \E tw \in tb..MaxDuration :
         LET call == [op |-> "add_documents",
                      collection_name |-> state.chroma_collection_name,
                      documents |-> state.documents,
                      document_ids |-> state.document_ids,
                      metadata |-> state.metadata]
             r == add_documents(deps.chroma_client, state.chroma_collection_name,
                                state.documents, state.document_ids, state.metadata)
             result == IF state.documents = << >>
                       THEN [error |-> "No documents provided for ingestion"]
                       ELSE IF ~r.ok
                       THEN [error |-> "Error during document ingestion: " \o r.exc.msg]
                       ELSE r.result
             succeeded == state.documents # << >> /\ r.ok
             st == IF succeeded
                   THEN [state EXCEPT
                           !.ingestion_results = Some(result),
                           !.node_execution_history = @ \o IngestionBodyHistory(state),
                           !.total_time = IngestionTotalTime(tb, tw)]
                   ELSE [state EXCEPT !.ingestion_results = Some(result)]
             w == measure_execution_time("ChromaDBIngestionNode", st, End(result), tw,
                      "Document Ingestion: " \o IngestionSummary(st))
         IN /\ Engine("ChromaDBIngestionNode", w.st, w.res)
            /\ calls' = IF state.documents # << >> THEN Append(calls, call) ELSE calls
            /\ measured' = IF succeeded
                           THEN Append(measured, [node |-> "ChromaDBIngestionNode", value |-> tb])
                           ELSE measured
    /\ UNCHANGED <<graph, state0, deps, start>>

(***************************************************************************)
(* The callers of the document graph: the inputs of a document run         *)
(***************************************************************************)
RECURSIVE SeqsUpTo(_, _)
SeqsUpTo(S, n) ==
    IF n = 0 THEN {<< >>}
    ELSE LET shorter == SeqsUpTo(S, n - 1)
         IN shorter \cup {Append(s, x) : s \in {q \in shorter : Len(q) = n - 1}, x \in S}

Batches == SeqsUpTo(Files, MaxBatch)

\* run_with_docling: f"doc_{len(document_ids)}_{base_name}_type_{extension}"
CliDocId(p, n) == "doc_" \o ToString(n) \o "_" \o p.stem \o "_type_" \o p.ext

CliDocumentIds(paths) == [i \in 1..Len(paths) |-> CliDocId(paths[i], i - 1)]

\* run_with_docling: the metadata built from os.stat (size and time as text)
CliMetadata(paths) ==
    [i \in 1..Len(paths) |->
        [filename |-> paths[i].stem \o "." \o paths[i].ext,
         file_path |-> paths[i],
         file_size |-> "st_size",
         last_modified |-> "st_mtime",
         source |-> paths[i]]]

\* ingest_documents: the default identifier f"doc_{i}"
DefaultDocumentIds(documents) == [i \in 1..Len(documents) |-> "doc_" \o ToString(i - 1)]

CallerDocuments == SeqsUpTo({"first document", "second document"}, 2)

\* run_document_ingestion_graph_with_docling starts at FileTypeRouterNode; the
\* graph of get_document_ingestion_graph_with_docling also runs from
\* DoclingProcessorNode, one of its registered nodes.
InitDocFiles ==
    /\ graph = "doc"
    /\ start \in {"FileTypeRouterNode", "DoclingProcessorNode"}
    /\ \E paths \in Batches, preset \in BOOLEAN :
         state = IF preset
                 THEN DocumentState(paths, << >>, Some(CliDocumentIds(paths)),
                                    Some(CliMetadata(paths)))
                 ELSE DocumentState(paths, << >>, None, None)
    /\ \E client \in {None} \cup {Some(k) : k \in ChromaClients},
          processor \in DoclingProcessors :
         deps = [chroma_client |-> ChromaDBDependencies(client).chroma_client,
                 docling_processor |-> processor]

InitDocDocuments ==
    /\ graph = "doc"
    /\ start = "ChromaDBIngestionNode"
    /\ \E documents \in CallerDocuments :
         \E ids \in {None, Some(DefaultDocumentIds(documents)), Some(<<"doc_0">>)} :
            state = DocumentState(<< >>, documents, ids, None)
    /\ \E client \in {None} \cup {Some(k) : k \in ChromaClients} :
         deps = [chroma_client |-> ChromaDBDependencies(client).chroma_client,
                 docling_processor |-> "missing_attribute"]

(***************************************************************************)
(* run_graph of hello_world/core/graph.py: the inputs of a Hello run       *)
(***************************************************************************)
InitHello ==
    /\ graph = "hello"
    /\ \E h \in HelloTexts, w \in WorldTexts, c \in CombinedTexts :
         state = MyState(h, w, c)
    /\ \E client \in {None} \cup {Some(k) : k \in LLMClients} :
         \E use_custom_llm, use_gemini, use_mock_gemini \in BOOLEAN, prefix \in Prefixes :
            deps = HelloWorldDependencies_post_init(use_custom_llm, use_gemini,
                                                    use_mock_gemini, prefix, client)
    /\ start = "HelloNode"

\* what every run starts with, whatever the graph
RunStart ==
    /\ state0 = state
    /\ current = start
    /\ pc = "running"
    /\ trace = << >>
    /\ output = None
    /\ err = None
    /\ calls = << >>
    /\ measured = << >>

Init ==
    /\ (InitHello \/ InitGemini \/ InitDocFiles \/ InitDocDocuments)
    /\ RunStart

Next ==
    \/ HelloNode
    \/ WorldNode
    \/ CombineNode
    \/ PrintNode
    \/ GeminiAgentNode
    \/ FileTypeRouterNode
    \/ DoclingProcessorNode
    \/ ChromaDBIngestionNode

Spec == Init /\ [][Next]_vars

\* runs of the Hello graph only
HelloInit ==
    /\ InitHello
    /\ RunStart

HelloNext ==
    \/ HelloNode
    \/ WorldNode
    \/ CombineNode
    \/ PrintNode

HelloSpec == HelloInit /\ [][HelloNext]_vars

\* runs of the document-ingestion graph only
DocInit ==
    /\ (InitDocFiles \/ InitDocDocuments)
    /\ RunStart

DocNext ==
    \/ FileTypeRouterNode
    \/ DoclingProcessorNode
    \/ ChromaDBIngestionNode

DocSpec == DocInit /\ [][DocNext]_vars

(***************************************************************************)
(* Properties of the Hello graph                                           *)
(***************************************************************************)
HelloDone == graph = "hello" /\ pc = "done"

HistoryNodes(history) == [i \in 1..Len(history) |-> history[i].node]

\* the prompts the collaborator must have received, given the initial state
ExpectedCalls(st0) ==
    (IF st0.hello_text = "" THEN <<HelloPrompt>> ELSE << >>)
      \o (IF st0.world_text = "" THEN <<WorldPrompt>> ELSE << >>)

\* C1: a Hello run from an empty state with default dependencies ends with
\* output "Hello World!", combined_text "Hello World!", the four history
\* entries Hello, World, Combine, Print and a trace of five entries.
C1_HelloWorldDefault ==
    (HelloDone /\ state0 = MyState("", "", "") /\ deps = HelloWorldDependencies(None))
       => /\ output = Some("Hello World!")
          /\ state.combined_text = "Hello World!"
          /\ HistoryNodes(state.node_execution_history)
                = <<"HelloNode", "WorldNode", "CombineNode", "PrintNode">>
          /\ Len(trace) = 5

\* C2: HelloNode and WorldNode leave a pre-set hello_text / world_text alone,
\* call the collaborator once per empty field and never for a pre-set one,
\* the later nodes still run, and with default dependencies hello_text =
\* "Custom Hello" gives combined_text "Custom Hello World!".
C2_PresetFieldsKept ==
    HelloDone
       => /\ state0.hello_text # "" => state.hello_text = state0.hello_text
          /\ state0.world_text # "" => state.world_text = state0.world_text
          /\ calls = ExpectedCalls(state0)
          /\ trace = <<"HelloNode", "WorldNode", "CombineNode", "PrintNode", "End">>
          /\ (/\ state0.hello_text = "Custom Hello"
              /\ state0.world_text = ""
              /\ deps = HelloWorldDependencies(None))
                => state.combined_text = "Custom Hello World!"

AllPreset(st0) == st0.hello_text # "" /\ st0.world_text # "" /\ st0.combined_text # ""

RouterRun == graph = "doc" /\ start = "FileTypeRouterNode"

\* the router step has been taken
RouterActed == RouterRun /\ ~(pc = "running" /\ current = "FileTypeRouterNode")

\* the caller handed over file paths only: no documents, ids or metadata
BareState(st0) == st0.documents = << >> /\ IsNone(st0.document_ids) /\ IsNone(st0.metadata)

HasHeavyFile(paths) ==
    \E i \in 1..Len(paths) : FileExtension(paths[i]) \in DOCLING_SUPPORTED_EXTENSIONS

ExpectedRoute(paths) ==
    IF HasHeavyFile(paths) THEN "DoclingProcessorNode" ELSE "ChromaDBIngestionNode"

\* the engine recorded the router step and went on to node next
RoutedTo(next) ==
    /\ trace # << >>
    /\ trace[1] = "FileTypeRouterNode"
    /\ Len(trace) = 1 => (pc = "running" /\ current = next)
    /\ Len(trace) >= 2 => trace[2] = next

\* C4: in a run started at FileTypeRouterNode the router step completes and
\* the node executed next is DoclingProcessorNode if some input file has a
\* Docling-supported extension, ChromaDBIngestionNode otherwise.
C4_RouterRoutes ==
    RouterActed => RoutedTo(ExpectedRoute(state0.file_paths))

\* C5: for ["a.pdf", "b.txt", "c.exe"] and an otherwise empty state the
\* router adds exactly one entry for b.txt to documents, metadata and
\* document_ids, with identifier doc_0_b_type_txt, adds nothing for c.exe,
\* leaves file_paths = ["a.pdf"] and routes to DoclingProcessorNode.
C5_RouterScenario ==
    (RouterActed /\ state0.file_paths = <<a_pdf, b_txt, c_exe>> /\ BareState(state0))
       => /\ RoutedTo("DoclingProcessorNode")
          /\ Len(trace) = 1 =>
               /\ state.documents = <<ReadText(b_txt)>>
               /\ Len(ListOf(state.metadata)) = 1
               /\ ListOf(state.metadata)[1].source = b_txt
               /\ ListOf(state.document_ids) = <<"doc_0_b_type_txt">>
               /\ state.file_paths = <<a_pdf>>

\* the duration the ingestion node measured in its body
IngestionTimes ==
    {measured[i].value : i \in {k \in 1..Len(measured) : measured[k].node = "ChromaDBIngestionNode"}}

\* C6: for ["only.txt"] the router routes directly to ChromaDBIngestionNode;
\* with a store whose add_documents succeeds the run's terminal payload is
\* the dictionary add_documents returned and state.total_time is the
\* duration the ingestion node measured.
C6_TextOnlyScenario ==
    (/\ RouterActed
     /\ state0.file_paths = <<only_txt>>
     /\ BareState(state0)
     /\ deps.chroma_client = "DefaultChromaDBClient")
       => /\ RoutedTo("ChromaDBIngestionNode")
          /\ pc # "failed"
          /\ pc = "done" =>
               /\ output = Some(DefaultAddDocuments(FALSE, state.chroma_collection_name,
                                    state.documents, state.document_ids, state.metadata))
               /\ IngestionTimes = {state.total_time}

\* --- what the router did with each item of the batch ---

Occurrences(seq, x) == Cardinality({i \in 1..Len(seq) : seq[i] = x})

\* the entries the router appended to metadata / documents / document_ids
AppendedAfter(before, after) == SubSeq(after, Len(before) + 1, Len(after))

AppendedMetadata == AppendedAfter(ListOf(state0.metadata), ListOf(state.metadata))
AppendedDocuments == AppendedAfter(state0.documents, state.documents)
AppendedIds == AppendedAfter(ListOf(state0.document_ids), ListOf(state.document_ids))

\* how many documents the router read directly from path p
DirectReads(p) ==
    Cardinality({j \in 1..Len(AppendedDocuments) :
                    /\ j <= Len(AppendedMetadata)
                    /\ AppendedMetadata[j].source = p
                    /\ AppendedDocuments[j] = ReadText(p)})

\* the four outcomes of C7, for a path p that occurs k times in the batch
LeftForHeavy(p, k) == Occurrences(state.file_paths, p) = k /\ DirectReads(p) = 0
ReadDirectly(p, k) == Occurrences(state.file_paths, p) = 0 /\ DirectReads(p) = k
DroppedAsSkip(p) ==
    /\ FileExtension(p) \in SKIP_EXTENSIONS
    /\ Occurrences(state.file_paths, p) = 0 /\ DirectReads(p) = 0
DroppedAsBinary(p) ==
    /\ FileExtension(p) \notin
          (SKIP_EXTENSIONS \cup DOCLING_SUPPORTED_EXTENSIONS \cup TEXT_FILE_EXTENSIONS)
    /\ FileContent(p) \in {"nul", "invalid"}
    /\ Occurrences(state.file_paths, p) = 0 /\ DirectReads(p) = 0
\* the fifth outcome: open() or read() raised, the router logged it and went on
DroppedAsUnreadable(p) ==
    /\ FileExtension(p) \notin (SKIP_EXTENSIONS \cup DOCLING_SUPPORTED_EXTENSIONS)
    /\ \/ FileContent(p) = "missing"
       \/ FileExtension(p) \in TEXT_FILE_EXTENSIONS /\ FileContent(p) = "invalid"
    /\ Occurrences(state.file_paths, p) = 0 /\ DirectReads(p) = 0

BoolCount(b) == IF b THEN 1 ELSE 0

FourOutcomes(p, k) ==
    BoolCount(LeftForHeavy(p, k)) + BoolCount(ReadDirectly(p, k))
      + BoolCount(DroppedAsSkip(p)) + BoolCount(DroppedAsBinary(p))

BatchItems == {state0.file_paths[i] : i \in 1..Len(state0.file_paths)}

\* every appended document is the direct read of some item of the batch
NothingElseAppended ==
    /\ Len(AppendedDocuments) = Len(AppendedMetadata)
    /\ Len(AppendedDocuments) = Len(AppendedIds)
    /\ \A j \in 1..Len(AppendedDocuments) : AppendedMetadata[j].source \in BatchItems

\* C7 as stated: every item of a router batch ends in exactly one of: left in
\* file_paths for heavy processing, appended as exactly one document by a
\* direct read, dropped for a skip extension, dropped as unreadable binary.
C7_Original ==
    RouterActed =>
       \A p \in BatchItems : FourOutcomes(p, Occurrences(state0.file_paths, p)) = 1

\* C7 amended: every item of a router batch ends in exactly one of five
\* outcomes: the four of the claim, or dropped because opening or reading it
\* raised an error (a missing or undecodable .txt file, a missing file of
\* unknown type); nothing else is appended to the state.
C7_RouterCompleteness ==
    RouterActed =>
       /\ \A p \in BatchItems :
             FourOutcomes(p, Occurrences(state0.file_paths, p))
               + BoolCount(DroppedAsUnreadable(p)) = 1
       /\ NothingElseAppended

C7_Witness ==
    /\ RouterActed
    /\ state0.file_paths = <<a_pdf, notes_log, gone_txt>>
    /\ LeftForHeavy(a_pdf, 1)
    /\ ReadDirectly(notes_log, 1)
    /\ DroppedAsUnreadable(gone_txt)

IdsPresentAt(j) == Len(ListOf(state0.document_ids)) + j - 1

IsPrefix(s, t) == Len(s) <= Len(t) /\ SubSeq(t, 1, Len(s)) = s

\* the node steps of a completed run: the trace without its End entry
NodeSteps == Len(trace) - 1

\* C10: in the Hello, Gemini chat and document-ingestion graphs the history
\* list changes only by appends, and after a completed run its length is the
\* number of node steps taken: exactly one entry per executed node.
C10_HistoryOnePerStep ==
    /\ [][IsPrefix(state.node_execution_history, state'.node_execution_history)]_vars
    /\ [](pc = "done" => Len(state.node_execution_history) = NodeSteps)

(***************************************************************************)
(* Properties of the instrumentation wrappers and of the engine            *)
(***************************************************************************)
\* the exception a failing text-generation collaborator raises
CollaboratorFailure == generate_text("RaisingLLMClient", HelloPrompt).exc

\* a step of a Hello or Gemini chat run whose node body raised: the only
\* exception a body of these graphs lets out is the collaborator's
BodyRaised == graph \in {"hello", "gemini"} /\ pc = "running" /\ pc' = "failed"

\* C11: when a wrapped node step raises, the wrapper appends exactly one
\* entry "<NodeVariant>: Error - <message>" to the execution history and
\* raises a NodeError whose cause is the original exception.
C11_WrapperErrorContract ==
    [][BodyRaised =>
         /\ state'.node_execution_history
               = Append(state.node_execution_history,
                        HistoryEntry(current, "Error - " \o CollaboratorFailure.msg))
         /\ Get(err').type = "NodeError"
         /\ "cause" \in DOMAIN Get(err')
         /\ Get(err').cause = CollaboratorFailure]_vars

(***************************************************************************)
(* The three instrumentation wrappers applied to an arbitrary node body.   *)
(* A wrapped node is named after the module whose _measure_execution_time  *)
(* decorates its run method; its body's outcome is an input of the step.   *)
(***************************************************************************)
MaxChain == 3

WrappedNodes == {"CoreWrappedNode", "GeminiWrappedNode", "LegacyWrappedNode"}

\* hello_world/nodes.py: the wrapper returns what the body returned and has
\* no handler for what it raises
LegacyWrapper(node, res) == res

\* outcomes of a node body: nothing returned, a successor, a terminal
\* marker, an exception (one that already is a NodeError and one that is not)
BodyResults ==
    {ReturnsNone}
      \cup {Continue(n) : n \in WrappedNodes}
      \cup {End(p) : p \in {"payload"}}
      \cup {Raises(e) : e \in {CollaboratorFailure, NodeError("raised by the body")}}

\* the decorated run method: the state it leaves and what it hands the engine
WrappedRun(node, st, res, t) ==
    CASE node = "CoreWrappedNode" -> [st |-> st, res |-> HelloWrapper(node, res)]
      [] node = "GeminiWrappedNode" -> measure_execution_time(node, st, res, t, "completed")
      [] OTHER -> [st |-> st, res |-> LegacyWrapper(node, res)]

WrappedStep ==
    /\ graph = "wrapped" /\ pc = "running" /\ current \in WrappedNodes
    /\ Len(trace) < MaxChain
    /\ \E res \in BodyResults, t \in Durations :
         LET w == WrappedRun(current, state, res, t)
         IN /\ Engine(current, w.st, w.res)
            /\ calls' = Append(calls, [node |-> current, result |-> res])
    /\ UNCHANGED <<graph, state0, deps, start, measured>>

InitWrapped ==
    /\ graph = "wrapped"
    /\ state = [node_execution_history |-> << >>]
    /\ deps = << >>
    /\ start \in WrappedNodes

WrapperInit ==
    /\ InitWrapped
    /\ RunStart

WrapperNext == WrappedStep

WrapperSpec == WrapperInit /\ [][WrapperNext]_vars

\* the body of the step being taken returned None
BodyReturnedNone ==
    /\ graph = "wrapped"
    /\ Len(calls') = Len(calls) + 1
    /\ calls'[Len(calls')].result = ReturnsNone

\* C12: a wrapped step that returns None never hands None to the engine: the
\* wrapper raises the normalized error (NodeError), the run aborts, and no
\* step is taken afterwards.
C12_NoneIsNodeError ==
    /\ [][BodyReturnedNone => (pc' = "failed" /\ Get(err').type = "NodeError")]_vars
    /\ [][pc = "failed" => UNCHANGED vars]_vars

(***************************************************************************)
(* Properties of error handling in the runs                                *)
(***************************************************************************)
\* Gemini chat runs whose text generation fails: the agent behind
\* GeminiLLMClient raises, or the client held by the dependencies raises
GenerationFailed ==
    /\ graph = "gemini"
    /\ state0.user_prompt # ""
    /\ deps.llm_client \in {"GeminiLLMClientAgentDown", "RaisingLLMClient"}
    /\ pc # "running"

\* the messages that start with "Error generating response:"
ErrorResponses ==
    {"Error generating response: " \o m : m \in {"agent down", CollaboratorFailure.msg}}

\* C13: if the text-generation collaborator raises during a generation
\* node's step, the node's output field is set to a string starting with
\* "Error generating response:", the node still returns its terminal marker,
\* and the run ends normally with no exception reaching the caller.
C13_GenerationErrorContinues ==
    GenerationFailed
       => /\ pc = "done"
          /\ err = None
          /\ state.ai_response \in ErrorResponses
          /\ output = Some(state.ai_response)

\* the items of a batch the router leaves for heavy processing
HeavyOnly(paths) ==
    SelectSeq(paths, LAMBDA p : FileExtension(p) \in DOCLING_SUPPORTED_EXTENSIONS)

\* "<node>: Error - ..." is the last history entry
LastEntryBy(node) ==
    LET h == state.node_execution_history
    IN h # << >> /\ h[Len(h)].node = node

\* what the steps taken before and during the failure wrote is still in state
MutationsVisible ==
    /\ graph = "hello" =>
          /\ HistoryNodes(state.node_execution_history) = trace
          /\ \A i \in 1..Len(trace) :
                /\ trace[i] = "HelloNode" => state.hello_generation_time \in Durations
                /\ trace[i] = "WorldNode" => state.world_generation_time \in Durations
                /\ trace[i] = "CombineNode" =>
                      state.combined_text = CombineText(state.hello_text, state.world_text)
    /\ graph = "gemini" => LastEntryBy("GeminiAgentNode")
    /\ graph = "doc" => LastEntryBy(current)
    /\ RouterRun => state.file_paths = HeavyOnly(state0.file_paths)

\* a run whose collaborator raised on its first call
CollaboratorRaised ==
    /\ graph \in {"hello", "gemini"}
    /\ deps.llm_client = "RaisingLLMClient"
    /\ calls # << >>

\* C14: an exception that escapes a node step aborts the run at once: no
\* step is taken afterwards (none later, none again), no output and no
\* trace entry for the failed step is produced, the caller gets the error,
\* and what the steps wrote before the failure is still in the state.
C14_FailureAborts ==
    /\ [][pc = "failed" => UNCHANGED vars]_vars
    /\ [](CollaboratorRaised => (pc = "failed" /\ Len(calls) = 1))
    /\ [](pc = "failed" =>
            /\ output = None
            /\ ~IsNone(err)
            /\ current # "End"
            /\ \A i \in 1..Len(trace) : trace[i] # current
            /\ MutationsVisible)

C14_Witness ==
    /\ graph = "hello"
    /\ pc = "failed"
    /\ trace = <<"HelloNode">>
    /\ current = "WorldNode"
    /\ state.hello_text = "Custom Hello"
    /\ state.hello_generation_time \in Durations
    /\ Len(state.node_execution_history) = 1

(***************************************************************************)
(* What the runners hand back after graph.run returned                     *)
(***************************************************************************)
\* run_graph and the document runners: (result.output, result.state,
\* result.history); run_gemini_agent_graph: (result.output, result.state, [])
RunnerReturn ==
    IF graph = "gemini"
    THEN [output |-> Get(output), state |-> state, errors |-> << >>]
    ELSE [output |-> Get(output), state |-> state, history |-> trace]

\* the payload the last node put into its terminal marker: PrintNode's
\* combined_text, GeminiAgentNode's ai_response, ChromaDBIngestionNode's
\* result dictionary (also stored in ingestion_results)
TerminalPayload ==
    CASE graph = "hello" -> state.combined_text
      [] graph = "gemini" -> state.ai_response
      [] OTHER -> Get(state.ingestion_results)

Runs == {"A", "B"}

Queries == {"what is tla", "who wrote it"}

\* chroma_collection handed to run_rag_query, by what its query method does
Collections ==
    {"hits", "async_hits", "no_documents", "returns_none", "raises",
     "numeric_source", "missing_metadata", "extra_metadata", "fewer_metadata"}

\* gemini_model handed to run_rag_query, by class and by what its call does
Models == {"Agent", "AgentFails", "AgentDataNone", "VertexAIModel", "GenerateModel",
           "GenerateFails"}

RAGState(query) ==
    [query |-> query,
     retrieved_documents |-> << >>,
     answer |-> None,
     sources |-> << >>,
     generation_time |-> 0,
     retrieval_time |-> 0,
     total_time |-> 0]

RAGDependencies(chroma_collection, gemini_model, project_id) ==
    [chroma_collection |-> chroma_collection,
     gemini_model |-> gemini_model,
     project_id |-> project_id]

\* time.time() when QueryNode runs: an absolute time stamp
Stamps == {1000 + d : d \in Durations}

Frame(node, awaiting, prompt) == [node |-> node, awaiting |-> awaiting, prompt |-> prompt]

\* a metadata value with its Python type and what str() makes of it; the
\* store keeps strings and numbers
StrValue(s) == [type |-> "str", text |-> s]
IntValue(n) == [type |-> "int", text |-> ToString(n)]

\* collection.query(query_texts=[query], n_results=5); the metadata of a
\* document stored without any is None
CollectionQuery(collection, query) ==
    CASE collection \in {"hits", "async_hits"} ->
             [ok |-> TRUE,
              results |-> Some([documents |-> << <<"first text on " \o query,
                                                   "second text on " \o query>> >>,
                                metadatas |-> << << Some([source |-> StrValue("a.pdf")]),
                                                    Some([filename |-> StrValue("b.txt")]) >> >>])]
      [] collection = "numeric_source" ->
             [ok |-> TRUE,
              results |-> Some([documents |-> << <<"page text on " \o query>> >>,
                                metadatas |-> << << Some([source |-> IntValue(7)]) >> >>])]
      [] collection = "missing_metadata" ->
             [ok |-> TRUE,
              results |-> Some([documents |-> << <<"first text on " \o query,
                                                   "bare text on " \o query>> >>,
                                metadatas |-> << << Some([source |-> StrValue("a.pdf")]),
                                                    None >> >>])]
      [] collection = "extra_metadata" ->
             [ok |-> TRUE,
              results |-> Some([documents |-> << <<"first text on " \o query>> >>,
                                metadatas |-> << << Some([source |-> StrValue("a.pdf")]),
                                                    Some([page |-> IntValue(2)]) >> >>])]
      [] collection = "fewer_metadata" ->
             [ok |-> TRUE,
              results |-> Some([documents |-> << <<"first text on " \o query,
                                                   "second text on " \o query>> >>,
                                metadatas |-> << << Some([source |-> StrValue("a.pdf")]) >> >>])]
      [] collection = "no_documents" ->
             [ok |-> TRUE, results |-> Some([documents |-> << >>, metadatas |-> << >>])]
      [] collection = "returns_none" -> [ok |-> TRUE, results |-> None]
      [] OTHER -> [ok |-> FALSE, exc |-> Exc("RuntimeError", "ChromaDB query failed")]

\* results = await results: only a coroutine suspends the node
QueryIsCoroutine(collection) == collection = "async_hits"

\* meta.get("source", meta.get("filename", "unknown"))
SourceOf(meta) ==
    IF "source" \in DOMAIN meta THEN meta.source
    ELSE IF "filename" \in DOMAIN meta THEN meta.filename
    ELSE StrValue("unknown")

\* zip(documents, metadatas)
Zip(documents, metadatas) ==
    [i \in 1..(IF Len(documents) < Len(metadatas) THEN Len(documents) ELSE Len(metadatas))
        |-> [content |-> documents[i], metadata |-> metadatas[i]]]

\* a handler that leaves the lists as the exception found them
RetrieveBody_KeepsPartial(st, q, t) ==
    IF ~q.ok
    THEN [st |-> [st EXCEPT !.retrieved_documents = << >>, !.sources = << >>,
                            !.retrieval_time = t],
          timed |-> TRUE]
    ELSE IF IsNone(q.results)
    THEN [st |-> [st EXCEPT !.retrieved_documents = << >>, !.sources = << >>],
          timed |-> FALSE]
    ELSE LET results == Get(q.results) IN
         IF Len(results.documents) > 0
         THEN IF \E i \in 1..Len(results.metadatas[1]) : IsNone(results.metadatas[1][i])
              THEN \* meta.get on None raises inside the try block, after
                   \* retrieved_documents was assigned: the handler empties both
                   [st |-> [st EXCEPT
                              !.retrieved_documents =
                                  Zip(results.documents[1], results.metadatas[1]),
                              !.retrieval_time = t],
                    timed |-> TRUE]
              ELSE [st |-> [st EXCEPT
                              !.retrieved_documents =
                                  Zip(results.documents[1], results.metadatas[1]),
                              !.sources = [i \in 1..Len(results.metadatas[1])
                                              |-> SourceOf(Get(results.metadatas[1][i]))],
                              !.retrieval_time = t],
                    timed |-> TRUE]
         ELSE [st |-> [st EXCEPT !.retrieval_time = t], timed |-> TRUE]

\* RetrieveNode.run after the query answered: the state it leaves and
\* whether it reached the line that records retrieval_time
RetrieveBody(st, q, t) ==
    IF ~q.ok
    THEN [st |-> [st EXCEPT !.retrieved_documents = << >>, !.sources = << >>,
                            !.retrieval_time = t],
          timed |-> TRUE]
    ELSE IF IsNone(q.results)
    THEN [st |-> [st EXCEPT !.retrieved_documents = << >>, !.sources = << >>],
          timed |-> FALSE]
    ELSE LET results == Get(q.results) IN
         IF Len(results.documents) > 0
         THEN IF \E i \in 1..Len(results.metadatas[1]) : IsNone(results.metadatas[1][i])
              THEN \* meta.get on None raises inside the try block, after
                   \* retrieved_documents was assigned: the handler empties both
                   [st |-> [st EXCEPT !.retrieved_documents = << >>, !.sources = << >>,
                                      !.retrieval_time = t],
                    timed |-> TRUE]
              ELSE [st |-> [st EXCEPT
                              !.retrieved_documents =
                                  Zip(results.documents[1], results.metadatas[1]),
                              !.sources = [i \in 1..Len(results.metadatas[1])
                                              |-> SourceOf(Get(results.metadatas[1][i]))],
                              !.retrieval_time = t],
                    timed |-> TRUE]
         ELSE [st |-> [st EXCEPT !.retrieval_time = t], timed |-> TRUE]

\* "\n\n".join(f"Document {i+1} (from {sources[i]}):\n{doc['content']}" ...)
RECURSIVE JoinDocuments(_, _, _)
JoinDocuments(documents, sources, i) ==
    IF i > Len(documents) THEN ""
    ELSE (IF i > 1 THEN "\n\n" ELSE "")
         \o "Document " \o ToString(i) \o " (from " \o sources[i].text \o "):\n"
         \o documents[i].content
         \o JoinDocuments(documents, sources, i + 1)

\* the prompt AnswerNode builds from the state (the fixed wording of the
\* template is shortened to its two headings)
AnswerPrompt(st) ==
    "CONTEXT:\n"
    \o (IF Len(st.retrieved_documents) > 0
        THEN JoinDocuments(st.retrieved_documents, st.sources, 1)
        ELSE "No relevant documents found.")
    \o "\n\nQUESTION:\n" \o st.query

\* the models whose call AnswerNode awaits
AwaitedModels == {"Agent", "AgentFails", "AgentDataNone", "GenerateModel", "GenerateFails"}

GenerationFailedAnswer ==
    "I'm sorry, I encountered an error while generating a response. "
    \o "Please try again later."

\* ctx.state.answer when the try block of AnswerNode.run is left.  Only a
\* branch that binds result_text reaches the final assignment; the
\* VertexAIModel branch and the handler of a failed Agent.run leave it
\* unbound, and a result whose data is None raises ValueError, so the outer
\* handler sets the answer.
GeneratedAnswer(model, prompt) ==
    CASE model = "Agent" -> "agent reply to " \o prompt
      [] model = "GenerateModel" -> "generated text for " \o prompt
      [] OTHER -> GenerationFailedAnswer

\* ", ".join(sources) of strings
RECURSIVE JoinSources(_, _)
JoinSources(sources, i) ==
    IF i > Len(sources) THEN ""
    ELSE (IF i > 1 THEN ", " ELSE "") \o sources[i].text \o JoinSources(sources, i + 1)

\* ", ".join(sources) raises on the first item that is not a string
JoinRaises(sources) == \E i \in 1..Len(sources) : sources[i].type # "str"

JoinTypeError(sources) ==
    LET i == CHOOSE k \in 1..Len(sources) :
                 /\ sources[k].type # "str"
                 /\ \A j \in 1..(k - 1) : sources[j].type = "str"
    IN Exc("TypeError",
           "sequence item " \o ToString(i - 1) \o ": expected str instance, "
              \o sources[i].type \o " found")

\* an AnswerNode whose payload is the answer alone
AnswerBody_AnswerOnly(st, answer, generation_time, now) ==
    LET st1 == [st EXCEPT !.answer = Some(answer),
                          !.generation_time = generation_time,
                          !.total_time = now - st.total_time]
    IN [st |-> st1, res |-> End(answer)]

\* AnswerNode.run from the end of its try block: timings, then the End marker
AnswerBody(st, answer, generation_time, now) ==
    LET st1 == [st EXCEPT !.answer = Some(answer),
                          !.generation_time = generation_time,
                          !.total_time = now - st.total_time]
    IN [st |-> st1,
        res |-> IF JoinRaises(st1.sources) THEN Raises(JoinTypeError(st1.sources))
                ELSE End(IF Len(st1.sources) > 0
                         THEN answer \o "\n\nSources: " \o JoinSources(st1.sources, 1)
                         ELSE answer)]

\* graph.run of run r takes the result of one step
RagEngine(r, node, res) ==
    CASE res.kind = "end" ->
           /\ pc' = [pc EXCEPT ![r] = "done"]
           /\ output' = [output EXCEPT ![r] = Some(res.payload)]
           /\ trace' = [trace EXCEPT ![r] = @ \o <<node, "End">>]
           /\ current' = [current EXCEPT ![r] = Frame("End", FALSE, "")]
           /\ UNCHANGED err
      [] res.kind = "raise" ->
           /\ pc' = [pc EXCEPT ![r] = "failed"]
           /\ err' = [err EXCEPT ![r] = Some(res.exc)]
           /\ UNCHANGED <<current, trace, output>>
      [] OTHER ->
           /\ current' = [current EXCEPT ![r] = Frame(res.next, FALSE, "")]
           /\ trace' = [trace EXCEPT ![r] = Append(@, node)]
           /\ UNCHANGED <<pc, output, err>>

TimeWrite(r, node, field, value) == [run |-> r, node |-> node, field |-> field, value |-> value]

RagStep(r, node, awaiting) ==
    /\ graph = "rag"
    /\ pc[r] = "running"
    /\ current[r].node = node
    /\ current[r].awaiting = awaiting

QueryNode(r) ==
    \E now \in Stamps :
        /\ RagStep(r, "QueryNode", FALSE)
        /\ state' = [state EXCEPT ![r].total_time = now]
        /\ measured' = [measured EXCEPT
                          ![r] = Append(@, TimeWrite(r, "QueryNode", "total_time", now))]
        /\ RagEngine(r, "QueryNode", Continue("RetrieveNode"))
        /\ UNCHANGED <<graph, state0, deps, start, calls>>

\* a retrieval that gives up, and ends the run, when it took long
RetrieveFinish_GivesUp(r, t) ==
    LET b == RetrieveBody(state[r], CollectionQuery(deps[r].chroma_collection, state[r].query), t)
    IN /\ state' = [state EXCEPT ![r] = b.st]
       /\ measured' = IF b.timed
                      THEN [measured EXCEPT
                              ![r] = Append(@, TimeWrite(r, "RetrieveNode", "retrieval_time", t))]
                      ELSE measured
       /\ RagEngine(r, "RetrieveNode",
                    IF t = 1 THEN Continue("AnswerNode") ELSE End("retrieval took too long"))

\* RetrieveNode.run from the answer of the query to its return
RetrieveFinish(r, t) ==
    LET b == RetrieveBody(state[r], CollectionQuery(deps[r].chroma_collection, state[r].query), t)
    IN /\ state' = [state EXCEPT ![r] = b.st]
       /\ measured' = IF b.timed
                      THEN [measured EXCEPT
                              ![r] = Append(@, TimeWrite(r, "RetrieveNode", "retrieval_time", t))]
                      ELSE measured
       /\ RagEngine(r, "RetrieveNode", Continue("AnswerNode"))

RetrieveNode(r) ==
        /\ RagStep(r, "RetrieveNode", FALSE)
        /\ calls' = [calls EXCEPT ![r] = Append(@, [run |-> r, op |-> "collection.query",
                                                     arg |-> state[r].query])]
        /\ IF QueryIsCoroutine(deps[r].chroma_collection)
           THEN /\ current' = [current EXCEPT ![r] = Frame("RetrieveNode", TRUE, "")]
                /\ UNCHANGED <<state, measured, pc, trace, output, err>>
           ELSE \E t \in Durations : RetrieveFinish(r, t)
        /\ UNCHANGED <<graph, state0, deps, start>>

RetrieveNodeResume(r) ==
    \E t \in Durations :
        /\ RagStep(r, "RetrieveNode", TRUE)
        /\ RetrieveFinish(r, t)
        /\ UNCHANGED <<graph, state0, deps, start, calls>>

\* a graph whose runs write one module-level state instance
AnswerFinish_SharedState(r, prompt, t, now) ==
    LET b == AnswerBody(state[r], GeneratedAnswer(deps[r].gemini_model, prompt), t, now)
    IN /\ state' = [s \in Runs |-> b.st]
       /\ measured' = [measured EXCEPT
                         ![r] = @ \o << TimeWrite(r, "AnswerNode", "generation_time", t),
                                        TimeWrite(r, "AnswerNode", "total_time",
                                                  b.st.total_time) >>]
       /\ RagEngine(r, "AnswerNode", b.res)

AnswerFinish(r, prompt, t, now) ==
    LET b == AnswerBody(state[r], GeneratedAnswer(deps[r].gemini_model, prompt), t, now)
    IN /\ state' = [state EXCEPT ![r] = b.st]
       /\ measured' = [measured EXCEPT
                         ![r] = @ \o << TimeWrite(r, "AnswerNode", "generation_time", t),
                                        TimeWrite(r, "AnswerNode", "total_time",
                                                  b.st.total_time) >>]
       /\ RagEngine(r, "AnswerNode", b.res)

AnswerNode(r) ==
        /\ RagStep(r, "AnswerNode", FALSE)
        /\ IF deps[r].gemini_model \in AwaitedModels
           THEN /\ calls' = [calls EXCEPT ![r] = Append(@, [run |-> r, op |-> "model",
                                                             arg |-> AnswerPrompt(state[r])])]
                /\ current' = [current EXCEPT
                                 ![r] = Frame("AnswerNode", TRUE, AnswerPrompt(state[r]))]
                /\ UNCHANGED <<state, measured, pc, trace, output, err>>
           ELSE /\ \E t \in Durations, now \in {s \in Stamps : s >= state[r].total_time} :
                     AnswerFinish(r, AnswerPrompt(state[r]), t, now)
                /\ UNCHANGED calls
        /\ UNCHANGED <<graph, state0, deps, start>>

AnswerNodeResume(r) ==
    /\ RagStep(r, "AnswerNode", TRUE)
    /\ \E t \in Durations :
          \E now \in {s \in Stamps : s >= state[r].total_time} :
             AnswerFinish(r, current[r].prompt, t, now)
    /\ UNCHANGED <<graph, state0, deps, start, calls>>

\* a runner that reports the total time the nodes left in the state
run_rag_query_StateTotal(r, execution_time) ==
    [answer |-> IF pc[r] = "failed" THEN "Error: " \o Get(err[r]).msg ELSE Get(output[r]),
     retrieval_time |-> state[r].retrieval_time,
     generation_time |-> state[r].generation_time,
     total_time |-> state[r].total_time]

\* what run_rag_query returns for run r once graph.run has returned or
\* raised: it catches every exception of the run
run_rag_query(r, execution_time) ==
    [answer |-> IF pc[r] = "failed" THEN "Error: " \o Get(err[r]).msg ELSE Get(output[r]),
     retrieval_time |-> state[r].retrieval_time,
     generation_time |-> state[r].generation_time,
     total_time |-> execution_time]

\* two overlapping calls of run_rag_query, each with its own query, on the
\* application's one collection and one model; the calls are interchangeable,
\* so the query of the first is fixed and the second asks the same or another
InitRag ==
    /\ graph = "rag"
    /\ start = "QueryNode"
    /\ \E collection \in Collections, model \in Models :
         \E q \in {f \in [Runs -> Queries] : f["A"] = "what is tla"} :
            /\ state = [r \in Runs |-> RAGState(q[r])]
            /\ deps = [r \in Runs |-> RAGDependencies(collection, model, None)]
    /\ state0 = state
    /\ current = [r \in Runs |-> Frame(start, FALSE, "")]
    /\ pc = [r \in Runs |-> "running"]
    /\ trace = [r \in Runs |-> << >>]
    /\ output = [r \in Runs |-> None]
    /\ err = [r \in Runs |-> None]
    /\ calls = [r \in Runs |-> << >>]
    /\ measured = [r \in Runs |-> << >>]

\* the step run r takes when the event loop resumes it
RagRun(r) ==
    \/ QueryNode(r)
    \/ RetrieveNode(r)
    \/ RetrieveNodeResume(r)
    \/ AnswerNode(r)
    \/ AnswerNodeResume(r)

RagNext == \E r \in Runs : RagRun(r)

RagSpec == InitRag /\ [][RagNext]_vars

(***************************************************************************)
(* C17                                                                     *)
(***************************************************************************)
\* the collaborators of the run answer every call and every input file can
\* be read, so that a step can fail only through the graph's own code
HealthyCollaborators ==
    CASE graph \in {"hello", "gemini"} -> deps.llm_client # "RaisingLLMClient"
      [] graph = "doc" ->
            /\ deps.chroma_client = "DefaultChromaDBClient"
            /\ deps.docling_processor = "available"
            /\ \A i \in 1..Len(state0.file_paths) :
                  FileContent(state0.file_paths[i]) = "text"
      [] OTHER -> TRUE

\* number of node steps the engine has completed
StepsTaken(t) == Len(SelectSeq(t, LAMBDA n : n # "End"))

\* C17: from every node variant and every valid initial state the run
\* reaches a terminal marker within at most 4 steps: a run never completes
\* more than 4 steps, a run that is still running can take a step, and a run
\* that has stopped has stopped at the terminal marker.
C17_TerminalReached ==
    IF graph = "rag"
    THEN \A r \in Runs :
            /\ StepsTaken(trace[r]) <= 4
            /\ pc[r] = "running" => ENABLED RagRun(r)
            /\ pc[r] # "running" => (pc[r] = "done" /\ current[r].node = "End")
    ELSE HealthyCollaborators =>
            /\ StepsTaken(trace) <= 4
            /\ pc = "running" => ENABLED Next
            /\ pc # "running" => (pc = "done" /\ current = "End")

(***************************************************************************)
(* C18                                                                     *)
(***************************************************************************)
TimingFields == {"retrieval_time", "generation_time", "total_time"}

\* the node whose stage a timing field of the RAG state measures
TimingOwner(field) ==
    IF field = "retrieval_time" THEN "RetrieveNode" ELSE "AnswerNode"

\* the assignments run r has made to the field, in order
WritesOf(r, field) == SelectSeq(measured[r], LAMBDA w : w.field = field)

\* C18: in every run each per-stage timing field and total_time is written
\* exactly once, by the node that owns the stage: no field is assigned twice
\* and none by another node, and a finished run has assigned each of them.
C18_TimingWrittenOnce ==
    \A r \in Runs, field \in TimingFields :
        /\ Len(WritesOf(r, field)) <= 1
        /\ \A i \in 1..Len(WritesOf(r, field)) :
              WritesOf(r, field)[i].node = TimingOwner(field)
        /\ pc[r] = "done" => Len(WritesOf(r, field)) = 1

(***************************************************************************)
(* C19                                                                     *)
(***************************************************************************)
\* the client a HelloWorldDependencies creates for itself
HelloDefaultClients ==
    {"MockLLMClient", "MockGeminiLLMClient", "GeminiLLMClient"}
        \cup {CustomLLMClient(p) : p \in Prefixes}

\* a handle passed explicitly is the handle the container holds
ExplicitHandleKept ==
    /\ \A c \in LLMClients, use_custom_llm, use_gemini, use_mock_gemini \in BOOLEAN,
          prefix \in Prefixes :
          HelloWorldDependencies_post_init(use_custom_llm, use_gemini, use_mock_gemini,
                                           prefix, Some(c)).llm_client = c
    /\ \A c \in GeminiClients : GeminiDependencies(Some(c)).llm_client = c
    /\ \A c \in ChromaClients : ChromaDBDependencies(Some(c)).chroma_client = c

\* an omitted handle is replaced by a client the container creates
OmittedHandleDefaulted ==
    /\ \A use_custom_llm, use_gemini, use_mock_gemini \in BOOLEAN, prefix \in Prefixes :
          HelloWorldDependencies_post_init(use_custom_llm, use_gemini, use_mock_gemini,
                                           prefix, None).llm_client \in HelloDefaultClients
    /\ GeminiDependencies(None).llm_client = "GeminiLLMClient"
    /\ ChromaDBDependencies(None).chroma_client = "DefaultChromaDBClient"

\* the container of the run holds a client in its handle field
HandlePresent ==
    CASE graph = "hello" -> deps.llm_client \in LLMClients \cup HelloDefaultClients
      [] graph = "gemini" -> deps.llm_client \in GeminiClients
      [] graph = "doc" -> deps.chroma_client \in ChromaClients
      [] OTHER -> TRUE

\* C19: a dependency container resolves its defaults once, at construction:
\* a handle passed explicitly is kept, an omitted one is replaced by a
\* default client, and no node step assigns to the dependencies afterwards.
C19_DependenciesResolvedOnce ==
    /\ [](ExplicitHandleKept /\ OmittedHandleDefaulted /\ HandlePresent)
    /\ [][deps' = deps]_vars

\* a finished Hello run that used the client its container created from the
\* flags use_custom_llm and prefix
C19_Witness ==
    /\ graph = "hello"
    /\ pc = "done"
    /\ state0.hello_text = ""
    /\ deps = HelloWorldDependencies_post_init(TRUE, FALSE, FALSE, Some("Demo:"), None)
    /\ deps.llm_client = "CustomLLMClient(Demo:)"
    /\ state.hello_text = "Demo: This is a custom response from an LLM with a prefix."

(***************************************************************************)
(* C20                                                                     *)
(***************************************************************************)
\* everything the engine and the nodes keep for run r
RunOwned(r) == <<state[r], current[r], pc[r], trace[r], output[r], err[r], measured[r]>>

\* the answer run_rag_query returns for a query, a collection and a model
\* when nothing else runs
AnswerAlone(query, collection, model) ==
    LET retrieved == RetrieveBody(RAGState(query), CollectionQuery(collection, query), 0).st
    IN AnswerBody(retrieved, GeneratedAnswer(model, AnswerPrompt(retrieved)), 0, 0).res.payload

\* the last value run r assigned to the timing field
LastWrite(r, field) == WritesOf(r, field)[Len(WritesOf(r, field))].value

\* C20: two overlapping run_rag_query calls never share a state instance: a
\* step of one run writes nothing the other run owns, whatever the
\* interleaving at the suspension points, and the answer and the timings a
\* finished call returns are those of its own query, collaborators and clock
\* readings.
C20_RunsIsolated ==
    /\ [][\A r \in Runs : RagRun(r) =>
             \A s \in Runs \ {r} : RunOwned(s)' = RunOwned(s)]_vars
    /\ [](\A r \in Runs :
            /\ state[r].query = state0[r].query
            /\ pc[r] = "done" =>
                 /\ run_rag_query(r, 0).answer
                      = AnswerAlone(state0[r].query, deps[r].chroma_collection,
                                    deps[r].gemini_model)
                 /\ run_rag_query(r, 0).generation_time = LastWrite(r, "generation_time")
                 /\ WritesOf(r, "retrieval_time") # << >> =>
                      run_rag_query(r, 0).retrieval_time = LastWrite(r, "retrieval_time"))

\* both calls are suspended in the middle of their runs, on different queries
C20_Witness ==
    /\ graph = "rag"
    /\ state["A"].query # state["B"].query
    /\ current["A"] = Frame("RetrieveNode", TRUE, "")
    /\ current["B"].node = "AnswerNode" /\ current["B"].awaiting
    /\ state["B"].retrieved_documents # << >>
    /\ state["A"].retrieved_documents = << >>

(***************************************************************************)
(* C21: the graphs without a router                                        *)
(***************************************************************************)
NoRouterInit ==
    \/ (InitHello \/ InitGemini) /\ RunStart
    \/ InitRag

NoRouterNext ==
    \/ HelloNode
    \/ WorldNode
    \/ CombineNode
    \/ PrintNode
    \/ GeminiAgentNode
    \/ RagNext

NoRouterSpec == NoRouterInit /\ [][NoRouterNext]_vars

\* the node sequence of a Hello or Gemini run, from its initial state and
\* dependencies alone: a client that raises stops the run at the first node
\* that has to call it
SequenceFrom(g, st0, d) ==
    IF g = "hello"
    THEN IF d.llm_client = "RaisingLLMClient" /\ st0.hello_text = "" THEN << >>
         ELSE IF d.llm_client = "RaisingLLMClient" /\ st0.world_text = ""
         THEN <<"HelloNode">>
         ELSE <<"HelloNode", "WorldNode", "CombineNode", "PrintNode", "End">>
    ELSE IF d.llm_client = "RaisingLLMClient" /\ st0.user_prompt # "" THEN << >>
         ELSE <<"GeminiAgentNode", "End">>

\* C21: in a graph without a router two runs started from identical initial
\* state and dependencies visit the same sequence of node variants and
\* produce traces of the same length, whatever the timing values are: the
\* trace of a Hello or Gemini run is a function of its initial state and
\* dependencies, and two RAG runs with identical inputs never disagree on a
\* trace entry and end with the same trace.
C21_SequencingDeterministic ==
    IF graph = "rag"
    THEN \A r, s \in Runs :
            (state0[r] = state0[s] /\ deps[r] = deps[s]) =>
                /\ IsPrefix(trace[r], trace[s]) \/ IsPrefix(trace[s], trace[r])
                /\ (pc[r] = "done" /\ pc[s] = "done") => trace[r] = trace[s]
    ELSE /\ IsPrefix(trace, SequenceFrom(graph, state0, deps))
         /\ pc # "running" => trace = SequenceFrom(graph, state0, deps)

\* two finished RAG runs with identical inputs and different timing values
C21_Witness ==
    /\ graph = "rag"
    /\ state0["A"] = state0["B"] /\ deps["A"] = deps["B"]
    /\ pc["A"] = "done" /\ pc["B"] = "done"
    /\ state["A"].retrieval_time # state["B"].retrieval_time
    /\ state["A"].generation_time # state["B"].generation_time
    /\ Len(trace["A"]) = 4

(***************************************************************************)
(* C22                                                                     *)
(***************************************************************************)
\* the event loop resumes every run whose step can be taken
FairRagSpec == RagSpec /\ \A r \in Runs : WF_vars(RagRun(r))

\* the models whose call raises
FailingModels == {"AgentFails", "GenerateFails"}

\* the answers AnswerNode writes that begin "I'm sorry, I encountered an error"
ApologyAnswers ==
    {GenerationFailedAnswer,
     "I'm sorry, I encountered an error while generating a response. "
        \o "Error details: model unavailable"}

\* run r has completed its RetrieveNode step
Retrieved(r) == Len(trace[r]) >= 2

\* run r has completed its AnswerNode step
AnswerReturned(r) == \E i \in 1..Len(trace[r]) : trace[r][i] = "AnswerNode"

\* the node the engine runs after the RetrieveNode step of run r
AfterRetrieve(r) == IF Len(trace[r]) >= 3 THEN trace[r][3] ELSE current[r].node

\* C22: collaborator failures inside the RAG nodes never escape the node: if
\* the vector-store query raises, RetrieveNode leaves retrieved_documents and
\* sources empty and returns AnswerNode; if the model call raises, AnswerNode
\* sets answer to a message beginning "I'm sorry, I encountered an error" and
\* returns a terminal marker; so a run started at QueryNode never fails and
\* always reaches its terminal marker.
C22_RagFailuresContained ==
    /\ [](\A r \in Runs :
            /\ pc[r] \in {"running", "done"} /\ IsNone(err[r])
            /\ (deps[r].chroma_collection = "raises" /\ Retrieved(r)) =>
                  /\ state[r].retrieved_documents = << >>
                  /\ state[r].sources = << >>
                  /\ AfterRetrieve(r) = "AnswerNode"
            /\ (deps[r].gemini_model \in FailingModels /\ AnswerReturned(r)) =>
                  /\ ~IsNone(state[r].answer)
                  /\ Get(state[r].answer) \in ApologyAnswers
                  /\ pc[r] = "done" /\ current[r].node = "End"
                  /\ ~IsNone(output[r]))
    /\ <>(\A r \in Runs : pc[r] = "done" /\ current[r].node = "End")

(***************************************************************************)
(* C23                                                                     *)
(***************************************************************************)
\* C23: the terminal payload of AnswerNode is state.answer followed by
\* "\n\nSources: " and the comma-separated state.sources when sources is not
\* empty, and exactly state.answer when it is empty, on the model-failure
\* path as on success; state.answer is never None when the node returns.
C23_PayloadIsAnswerAndSources ==
    \A r \in Runs :
        AnswerReturned(r) =>
            /\ ~IsNone(state[r].answer)
            /\ ~IsNone(output[r])
            /\ Get(output[r]) =
                 IF state[r].sources # << >>
                 THEN Get(state[r].answer) \o "\n\nSources: "
                         \o JoinSources(state[r].sources, 1)
                 ELSE Get(state[r].answer)

\* the model call failed after two documents were retrieved
C23_Witness ==
    /\ graph = "rag"
    /\ deps["B"].gemini_model = "GenerateFails"
    /\ AnswerReturned("B")
    /\ state["B"].sources = <<StrValue("a.pdf"), StrValue("b.txt")>>
    /\ output["B"] = Some(GenerationFailedAnswer \o "\n\nSources: a.pdf, b.txt")

(***************************************************************************)
(* C24                                                                     *)
(***************************************************************************)
\* graph.run of run r has returned or raised
RunEnded(r) == pc[r] \in {"done", "failed"}

\* C24: run_rag_query never raises for a failure inside the graph run: it
\* returns a dictionary with the keys answer, retrieval_time, generation_time
\* and total_time, where answer is "Error: <message>" if the run raised, the
\* two stage times are those of the call's own state as mutated up to the
\* failure, and total_time is the wall-clock duration of the call, not
\* state.total_time.
C24_RunnerAlwaysReturns ==
    \A r \in Runs, execution_time \in Durations :
        RunEnded(r) =>
            LET result == run_rag_query(r, execution_time) IN
            /\ DOMAIN result = {"answer", "retrieval_time", "generation_time", "total_time"}
            /\ pc[r] = "failed" =>
                 /\ ~IsNone(err[r])
                 /\ result.answer = "Error: " \o Get(err[r]).msg
                 /\ result.answer
                      = "Error: sequence item 0: expected str instance, int found"
            /\ pc[r] = "done" => result.answer = Get(output[r])
            /\ result.retrieval_time =
                 (IF WritesOf(r, "retrieval_time") = << >> THEN 0
                  ELSE LastWrite(r, "retrieval_time"))
            /\ result.generation_time =
                 (IF WritesOf(r, "generation_time") = << >> THEN 0
                  ELSE LastWrite(r, "generation_time"))
            /\ result.total_time = execution_time

\* the join of the sources raised after AnswerNode had written its timings,
\* and the wall-clock time of the call differs from state.total_time
C24_Witness ==
    /\ graph = "rag"
    /\ pc["A"] = "failed"
    /\ Get(err["A"]).type = "TypeError"
    /\ state["A"].generation_time = 2
    /\ state["A"].total_time = 0
    /\ run_rag_query("A", 1).answer = "Error: sequence item 0: expected str instance, int found"
    /\ run_rag_query("A", 1).generation_time = 2
    /\ run_rag_query("A", 1).total_time = 1

(***************************************************************************)
(* C25                                                                     *)
(***************************************************************************)
\* run_gemini_agent_graph once graph.run has returned or raised: its handler
\* catches GraphError only, any other exception leaves the function
run_gemini_agent_graph ==
    IF pc = "done"
    THEN [returned |-> TRUE, result_text |-> Get(output), final_state |-> state,
          errors |-> << >>]
    ELSE IF Get(err).type = "GraphError"
    THEN [returned |-> TRUE, result_text |-> "Error: " \o Get(err).msg,
          final_state |-> state, errors |-> <<Get(err).msg>>]
    ELSE [returned |-> FALSE, raised |-> Get(err)]

\* C25: run_gemini_agent_graph returns an empty errors list exactly when the
\* run completed with a terminal marker; when the run fails it returns
\* ("Error: <message>", the state as mutated so far, [message]) instead of
\* raising.
C25_GeminiRunnerReportsErrors ==
    (graph = "gemini" /\ pc # "running") =>
        /\ run_gemini_agent_graph.returned
        /\ (run_gemini_agent_graph.errors = << >>) <=> (pc = "done")
        /\ pc = "failed" =>
             /\ run_gemini_agent_graph.result_text = "Error: " \o Get(err).msg
             /\ run_gemini_agent_graph.final_state = state
             /\ run_gemini_agent_graph.errors = <<Get(err).msg>>

(***************************************************************************)
(* C26                                                                     *)
(***************************************************************************)
\* C26: for a non-empty user_prompt GeminiAgentNode calls generate_text
\* exactly once with exactly that prompt and, the client having returned a
\* text, stores it in ai_response, sets total_time equal to
\* ai_generation_time and returns a terminal marker whose payload equals
\* ai_response; for an empty prompt it makes no collaborator call and the
\* payload is the fixed "No prompt provided" message.
C26_GeminiNodeContract ==
    (graph = "gemini" /\ pc # "running") =>
        LET gen == gemini_generate_text(deps.llm_client, state.user_prompt) IN
        IF state.user_prompt = ""
        THEN /\ calls = << >>
             /\ pc = "done" /\ current = "End"
             /\ output = Some(NoPromptMessage)
        ELSE /\ calls = <<state.user_prompt>>
             /\ gen.ok =>
                  /\ state.ai_response = gen.text
                  /\ state.ai_generation_time \in Durations
                  /\ state.total_time = state.ai_generation_time
                  /\ pc = "done" /\ current = "End"
                  /\ output = Some(state.ai_response)

C26_Witness ==
    /\ graph = "gemini" /\ pc = "done" /\ current = "End"
    /\ state.user_prompt = "What is AI?"
    /\ deps.llm_client = "GeminiLLMClient"
    /\ calls = <<"What is AI?">>
    /\ state.ai_response = "Answer to: What is AI?"
    /\ state.ai_generation_time = 2 /\ state.total_time = 2
    /\ output = Some("Answer to: What is AI?")

(***************************************************************************)
(* C27                                                                     *)
(***************************************************************************)
\* the step of ChromaDBIngestionNode
IngestionStep == graph = "doc" /\ pc = "running" /\ current = "ChromaDBIngestionNode"

AddDocumentsCalls(log) == SelectSeq(log, LAMBDA c : c.op = "add_documents")

\* C27: on every path ChromaDBIngestionNode returns a terminal marker whose
\* payload equals state.ingestion_results, calls add_documents at most once
\* and never when state.documents is empty (the payload is then
\* {"error": "No documents provided for ingestion"}); an exception raised by
\* add_documents becomes a terminal {"error": ...} payload and does not
\* escape the node body.
C27_IngestionAlwaysTerminal ==
    [][IngestionStep =>
         /\ pc' = "done" /\ current' = "End" /\ err' = None
         /\ ~IsNone(output') /\ output' = state'.ingestion_results
         /\ Len(AddDocumentsCalls(calls')) <= 1
         /\ state.documents = << >> =>
              /\ calls' = << >>
              /\ output' = Some([error |-> "No documents provided for ingestion"])
         /\ (state.documents # << >> /\ deps.chroma_client = "RaisingChromaClient") =>
              /\ Len(AddDocumentsCalls(calls')) = 1
              /\ output' = Some([error |->
                    "Error during document ingestion: store connection refused"])
      ]_vars

C27_Witness ==
    /\ graph = "doc" /\ pc = "done" /\ current = "End"
    /\ deps.chroma_client = "RaisingChromaClient"
    /\ state.documents = <<"first document", "second document">>
    /\ Len(calls) = 1 /\ calls[1].op = "add_documents"
    /\ calls[1].documents = state.documents
    /\ err = None
    /\ state.ingestion_results =
         Some([error |-> "Error during document ingestion: store connection refused"])
    /\ output = state.ingestion_results

(***************************************************************************)
(* C28, C29: the lists the router leaves, as ChromaDBIngestionNode gets    *)
(* them over the edges of the graph                                        *)
(***************************************************************************)
\* the router's step has been taken in a run started at the router
RouterRan == graph = "doc" /\ start = "FileTypeRouterNode" /\ pc # "running"

\* The state ChromaDBIngestionNode is handed from the state st the router
\* left: the router returns DoclingProcessorNode when docling_files, which it
\* has stored in file_paths, is not empty, and ChromaDBIngestionNode otherwise;
\* DoclingProcessorNode returns ChromaDBIngestionNode on every path.
StateAtIngestion(st, processor, t) ==
    IF st.file_paths # << >> THEN DoclingProcessorBody(st, processor, t) ELSE st

C30_SourcesCoverDocuments ==
    \A r \in Runs :
       Retrieved(r) =>
          /\ Len(state[r].sources) >= Len(state[r].retrieved_documents)
          /\ \A i \in 1..Len(state[r].retrieved_documents) :
                i \in DOMAIN state[r].sources

\* two documents came with one metadata entry: one document and one source
\* are kept
C30_Witness ==
    /\ deps["A"].chroma_collection = "fewer_metadata"
    /\ Retrieved("A")
    /\ Len(state["A"].retrieved_documents) = 1
    /\ state["A"].sources = <<StrValue("a.pdf")>>
    /\ current["A"].node = "AnswerNode"

====
